---- MODULE Spec2Model ----
(***************************************************************************)
(* A model of the merchify web SDK: createClient, MockupServiceImpl        *)
(* (getMockupUrl / getSignedUrl / trackRateLimit) and SignatureCache,      *)
(* together with the collaborators they use: the localStorage slot, the    *)
(* clock (Date.now), the timer queue (setTimeout) and the signer reached   *)
(* through fetch.                                                          *)
(*                                                                         *)
(* A JavaScript string is a sequence of atoms.  An atom is either one      *)
(* reserved character ("/", "?", "&", "=", ":", "+", "#"), or a run of     *)
(* unreserved characters ("mockup", "acctA"), or one percent-escape        *)
(* ("%26").  String concatenation is \o on these sequences.                *)
(***************************************************************************)
EXTENDS Integers, Sequences, FiniteSets, TLC

\* ------------------------------------------------------------------------
\* Bounds of the model
\* ------------------------------------------------------------------------

\* sign() calls that pass validation, in the specification of one client.
MaxCalls == 2

\* sign() calls that pass validation, in the specification of two clients.
MaxPairCalls == 2

\* The maxSize the caches of the cache-level specification are built with.
CacheMaxSize == 2

\* sign() calls in the specification of the repeated request.
MaxRetryCalls == 3

\* sign() calls that pass validation in the specification of the timers.
MaxRateCalls == 2

\* Distinct sub-second instants the clock visits by 1 ms ticks.
MaxTicks == 1

\* sign() calls that pass validation in the specification of the held rate
\* limit information.
MaxSnapshotCalls == 1

\* sign() calls in the specification of the supplied endpoints.
MaxEndpointCalls == 2

\* sign() calls in the specification of the throwing write-through.
MaxWriteCalls == 2

\* sign() calls in the specification of the seeded cache.
MaxSeedCalls == 2

\* sign() calls that pass validation in the specification of the counters'
\* return to 0.
MaxDrainCalls == 2

\* ------------------------------------------------------------------------
\* Program constants
\* ------------------------------------------------------------------------

\* CACHE_CONFIG.MEMORY_CACHE_SIZE, the default maxSize: 500 in
\* src/src/config/constants.ts, scaled down here.
MEMORY_CACHE_SIZE == 2

\* CACHE_CONFIG.STORAGE_CACHE_SIZE: 100 in src/src/config/constants.ts,
\* scaled down here.
STORAGE_CACHE_SIZE == 1

\* setTimeout delay of the per-second decrement.
SECOND_MS == 1000

\* setTimeout delay of the per-minute decrement.
MINUTE_MS == 60 * 1000

\* The slots a client (or a cache of its own) may be constructed in.
Clients == {1, 2}

\* ------------------------------------------------------------------------
\* Strings
\* ------------------------------------------------------------------------

EmptyStr == << >>

\* JavaScript truthiness of a string: the empty string (and, in this model,
\* a missing field) is falsy.
Truthy(s) == s # EmptyStr

\* encodeURIComponent on one atom: reserved characters and "%" escapes are
\* escaped, unreserved runs are kept.
EncodeAtom(a) ==
    CASE a = "/"   -> "%2F"
      [] a = "?"   -> "%3F"
      [] a = "&"   -> "%26"
      [] a = "="   -> "%3D"
      [] a = ":"   -> "%3A"
      [] a = "+"   -> "%2B"
      [] a = "#"   -> "%23"
      [] a = "%2F" -> "%252F"
      [] a = "%3F" -> "%253F"
      [] a = "%26" -> "%2526"
      [] a = "%3D" -> "%253D"
      [] a = "%3A" -> "%253A"
      [] a = "%2B" -> "%252B"
      [] a = "%23" -> "%2523"
      [] OTHER     -> a

\* decodeURIComponent on one atom.
DecodeAtom(a) ==
    CASE a = "%2F"   -> "/"
      [] a = "%3F"   -> "?"
      [] a = "%26"   -> "&"
      [] a = "%3D"   -> "="
      [] a = "%3A"   -> ":"
      [] a = "%2B"   -> "+"
      [] a = "%23"   -> "#"
      [] a = "%252F" -> "%2F"
      [] a = "%253F" -> "%3F"
      [] a = "%2526" -> "%26"
      [] a = "%253D" -> "%3D"
      [] a = "%253A" -> "%3A"
      [] a = "%252B" -> "%2B"
      [] a = "%2523" -> "%23"
      [] OTHER       -> a

encodeURIComponent(s) == [i \in 1..Len(s) |-> EncodeAtom(s[i])]

decodeURIComponent(s) == [i \in 1..Len(s) |-> DecodeAtom(s[i])]

\* String.prototype.includes for a one-character needle.
Includes(s, ch) == \E i \in 1..Len(s) : s[i] = ch

\* url.startsWith("http"): the first run of characters is http or https.
StartsWithHttp(s) == Len(s) > 0 /\ s[1] \in {"http", "https"}

\* url.startsWith("/")
StartsWithSlash(s) == Len(s) > 0 /\ s[1] = "/"

\* The first index at or after i where atom ch stands in s, Len(s)+1 if none.
RECURSIVE IndexFrom(_, _, _)
IndexFrom(s, ch, i) ==
    IF i > Len(s) THEN Len(s) + 1
    ELSE IF s[i] = ch THEN i
    ELSE IndexFrom(s, ch, i + 1)

\* The value of query parameter `name` in url (percent-decoded), EmptyStr when
\* the url carries no such parameter: what a reader of the URL sees as
\* "the signature it contains".
RECURSIVE QueryParamFrom(_, _, _)
QueryParamFrom(url, name, i) ==
    IF i + 1 > Len(url) THEN EmptyStr
    ELSE IF url[i] \in {"?", "&"} /\ url[i + 1] = name
              /\ i + 2 <= Len(url) /\ url[i + 2] = "="
         THEN decodeURIComponent(
                  SubSeq(url, i + 3, IndexFrom(url, "&", i + 3) - 1))
         ELSE QueryParamFrom(url, name, i + 1)

QueryParam(url, name) == QueryParamFrom(url, name, 1)

\* ------------------------------------------------------------------------
\* Endpoints (src/src/config/constants.ts)
\* ------------------------------------------------------------------------

API_URLS ==
    [production |->
        [mockupApiUrl      |-> <<"https", ":", "/", "/", "i.merchify.io">>,
         urlSignerEndpoint |-> <<"https", ":", "/", "/", "s.merchify.io",
                                 "/", "sign">>],
     development |->
        [mockupApiUrl      |-> <<"https", ":", "/", "/", "i.merchify.io">>,
         urlSignerEndpoint |-> <<"http", ":", "/", "/", "localhost", ":",
                                 "8102", "/", "sign">>]]

\* The constructor's choice: isDevelopment ? development : production.
UrlsFor(isDevelopment) ==
    IF isDevelopment THEN API_URLS.development ELSE API_URLS.production

\* ------------------------------------------------------------------------
\* URL helpers of MockupServiceImpl
\* ------------------------------------------------------------------------

\* normalizeRelativeUrl: throws on a URL starting with "http", otherwise
\* makes the URL start with "/".
normalizeRelativeUrl(url) ==
    IF StartsWithHttp(url)
    THEN [ok |-> FALSE, value |-> EmptyStr]
    ELSE [ok |-> TRUE,
          value |-> IF StartsWithSlash(url) THEN url ELSE <<"/">> \o url]

toAbsoluteUrl(urls, relativeUrl) ==
    IF StartsWithSlash(relativeUrl)
    THEN urls.mockupApiUrl \o relativeUrl
    ELSE urls.mockupApiUrl \o <<"/">> \o relativeUrl

addSignatureToUrl(url, signature) ==
    url \o << IF Includes(url, "?") THEN "&" ELSE "?" >>
        \o <<"sig", "=">> \o encodeURIComponent(signature)

\* A qualifier that does not depend on the account.
addAccountIdToUrlShared(accountId, url) ==
    url \o << IF Includes(url, "?") THEN "&" ELSE "?" >>
        \o <<"accountId", "=", "shared">>

addAccountIdToUrl(accountId, url) ==
    url \o << IF Includes(url, "?") THEN "&" ELSE "?" >>
        \o <<"accountId", "=">> \o encodeURIComponent(accountId)

\* ------------------------------------------------------------------------
\* Request validation and the canonical mockup path
\* ------------------------------------------------------------------------

\* An element check that only looks at the discriminant.
DesignElementAnyField(img) == img.type \in {"image", "color"}

\* One element passes when it is an image with an imageUrl or a color with
\* a hex value.
DesignElementOk(img) ==
    \/ img.type = "image" /\ Truthy(img.imageUrl)
    \/ img.type = "color" /\ Truthy(img.hex)

\* validateMockupInput: the message of the error thrown, "" when none is.
validateMockupInput(input) ==
    IF Len(input.design) = 0 \/ ~input.product.present
    THEN "Invalid input: at least one design image and product details are required"
    ELSE IF ~(\A i \in 1..Len(input.design) : DesignElementOk(input.design[i]))
    THEN "Each design image must have either an imageUrl or hex color"
    ELSE IF ~Truthy(input.product.productId) \/ ~Truthy(input.product.mockupId)
    THEN "Product ID and mockup ID are required"
    ELSE ""

\* JSON.stringify of the design sequence, element after element.
RECURSIVE JSONStringifyDesign(_)
JSONStringifyDesign(design) ==
    IF design = << >> THEN << >>
    ELSE <<"{", Head(design).type, ",">> \o Head(design).imageUrl
             \o <<",">> \o Head(design).hex \o <<"}">>
             \o JSONStringifyDesign(Tail(design))

\* btoa: every run of input becomes a run of base64 characters, and the
\* output ends with the padding character.
btoa(s) == [i \in 1..Len(s) |-> "b64(" \o s[i] \o ")"] \o <<"=">>

\* buildMockupUrl: the parameters in their fixed order; variantId falls back
\* to "VtPGZi"; width is appended only when truthy (non-zero).
buildMockupUrl(input) ==
    <<"/", "mockup", "?", "productId", "=">>
        \o encodeURIComponent(input.product.productId)
        \o <<"&", "mockupId", "=">>
        \o encodeURIComponent(input.product.mockupId)
        \o <<"&", "variantId", "=">>
        \o encodeURIComponent(IF Truthy(input.product.variantId)
                              THEN input.product.variantId
                              ELSE <<"VtPGZi">>)
        \o <<"&", "design", "=">>
        \o encodeURIComponent(btoa(JSONStringifyDesign(input.design)))
        \o (IF input.product.width # 0
            THEN <<"&", "width", "=", ToString(input.product.width)>>
            ELSE << >>)

\* The cache key of a request: getSignedUrl's normalizeRelativeUrl followed by
\* addAccountIdToUrl, applied to buildMockupUrl's result.
cacheKey(accountId, input) ==
    addAccountIdToUrl(accountId, normalizeRelativeUrl(buildMockupUrl(input)).value)

\* A signing request whose url parameter is not percent-encoded.
signerEndpointRaw(urls, urlWithAccountId, clientId) ==
    urls.urlSignerEndpoint \o <<"?", "url", "=">>
        \o urlWithAccountId
        \o <<"&", "clientId", "=">> \o encodeURIComponent(clientId)

\* The GET URL of the signing request.
signerEndpoint(urls, urlWithAccountId, clientId) ==
    urls.urlSignerEndpoint \o <<"?", "url", "=">>
        \o encodeURIComponent(urlWithAccountId)
        \o <<"&", "clientId", "=">> \o encodeURIComponent(clientId)

\* ------------------------------------------------------------------------
\* SignatureCache
\*
\* The Map is the sequence of its entries in insertion order; an entry is
\* [url, signature, timestamp].  A cache object is
\* [built, cache, maxSize, useLocalStorage].  The localStorage slot
\* CACHE_CONFIG.SIGNATURE_CACHE_KEY holds [kind, value]: kind "absent" (no
\* item), "json" (the text JSON.stringify wrote for the entries `value`) or
\* "garbage" (text JSON.parse rejects).
\* ------------------------------------------------------------------------

NoItem == [kind |-> "absent", value |-> << >>]

GarbageItem == [kind |-> "garbage", value |-> << >>]

JSONStringify(entries) == [kind |-> "json", value |-> entries]

\* JSON.parse: throws on text that is not JSON.
JSONParse(item) ==
    IF item.kind = "json"
    THEN [ok |-> TRUE, value |-> item.value]
    ELSE [ok |-> FALSE, value |-> << >>]

\* Map.prototype.has / index of the entry of a key (0 when absent).
MapIndex(m, url) ==
    IF \E i \in 1..Len(m) : m[i].url = url
    THEN CHOOSE i \in 1..Len(m) : m[i].url = url
    ELSE 0

MapHas(m, url) == MapIndex(m, url) # 0

MapKeys(m) == {m[i].url : i \in 1..Len(m)}

\* Map.prototype.get on a key that is present.
EntryOf(m, url) == m[MapIndex(m, url)]

\* A set that leaves the entry of an existing key as it is.
MapSetKeepExisting(m, entry) ==
    IF MapHas(m, entry.url) THEN m ELSE Append(m, entry)

\* Map.prototype.set: an existing key keeps its place, a new key goes last.
MapSet(m, entry) ==
    IF MapHas(m, entry.url)
    THEN [m EXCEPT ![MapIndex(m, entry.url)] = entry]
    ELSE Append(m, entry)

\* Map.prototype.delete
MapDelete(m, url) ==
    IF MapHas(m, url)
    THEN SubSeq(m, 1, MapIndex(m, url) - 1)
             \o SubSeq(m, MapIndex(m, url) + 1, Len(m))
    ELSE m

\* Array.prototype.sort((a, b) => a.timestamp - b.timestamp): stable, so
\* entries of equal timestamp keep their order.
RECURSIVE InsertAscending(_, _)
InsertAscending(sorted, e) ==
    IF sorted = << >> THEN <<e>>
    ELSE IF Head(sorted).timestamp <= e.timestamp
         THEN <<Head(sorted)>> \o InsertAscending(Tail(sorted), e)
         ELSE <<e>> \o sorted

RECURSIVE SortAscending(_)
SortAscending(arr) ==
    IF arr = << >> THEN << >>
    ELSE InsertAscending(SortAscending(SubSeq(arr, 1, Len(arr) - 1)),
                         arr[Len(arr)])

\* Array.prototype.sort((a, b) => b.timestamp - a.timestamp): stable.
RECURSIVE InsertDescending(_, _)
InsertDescending(sorted, e) ==
    IF sorted = << >> THEN <<e>>
    ELSE IF Head(sorted).timestamp >= e.timestamp
         THEN <<Head(sorted)>> \o InsertDescending(Tail(sorted), e)
         ELSE <<e>> \o sorted

RECURSIVE SortDescending(_)
SortDescending(arr) ==
    IF arr = << >> THEN << >>
    ELSE InsertDescending(SortDescending(SubSeq(arr, 1, Len(arr) - 1)),
                          arr[Len(arr)])

\* Array.prototype.slice(0, n)
Slice(arr, n) == SubSeq(arr, 1, IF Len(arr) < n THEN Len(arr) ELSE n)

\* forEach(entry => this.cache.set(entry.url, entry))
RECURSIVE MapSetAll(_, _)
MapSetAll(m, entries) ==
    IF entries = << >> THEN m
    ELSE MapSetAll(MapSet(m, Head(entries)), Tail(entries))

\* checkLocalStorageAvailability: setItem then removeItem of the test key;
\* `throws` says whether localStorage throws at this moment.
checkLocalStorageAvailability(throws) == ~throws

\* A load that reads nothing from the slot.
loadFromStorageNothing(cs, store, throws) ==
    IF ~cs.useLocalStorage THEN cs
    ELSE IF throws THEN [cs EXCEPT !.useLocalStorage = FALSE]
    ELSE IF store.kind = "absent" THEN cs
    ELSE IF ~JSONParse(store).ok THEN [cs EXCEPT !.useLocalStorage = FALSE]
    ELSE cs

\* loadFromStorage on a cache object; the result is the cache object.
loadFromStorage(cs, store, throws) ==
    IF ~cs.useLocalStorage THEN cs
    ELSE IF throws THEN [cs EXCEPT !.useLocalStorage = FALSE]
    ELSE IF store.kind = "absent" THEN cs
    ELSE IF ~JSONParse(store).ok THEN [cs EXCEPT !.useLocalStorage = FALSE]
    ELSE [cs EXCEPT !.cache =
             MapSetAll(cs.cache,
                       Slice(SortDescending(JSONParse(store).value),
                             STORAGE_CACHE_SIZE))]

\* new SignatureCache(maxSize)
NewSignatureCache(maxSize, store, throws) ==
    loadFromStorage([built |-> TRUE, cache |-> << >>, maxSize |-> maxSize,
                     useLocalStorage |-> checkLocalStorageAvailability(throws)],
                    store, throws)

\* A save that does not look at useLocalStorage.
saveToStorageAlways(cs, store, throws) ==
    IF throws
    THEN [cs |-> [cs EXCEPT !.useLocalStorage = FALSE], store |-> store]
    ELSE [cs |-> cs,
          store |-> JSONStringify(Slice(SortDescending(cs.cache),
                                        STORAGE_CACHE_SIZE))]

\* A save that keeps the entries of the earliest timestamps.
saveToStorageOldest(cs, store, throws) ==
    IF ~cs.useLocalStorage THEN [cs |-> cs, store |-> store]
    ELSE IF throws
    THEN [cs |-> [cs EXCEPT !.useLocalStorage = FALSE], store |-> store]
    ELSE [cs |-> cs,
          store |-> JSONStringify(Slice(SortAscending(cs.cache),
                                        STORAGE_CACHE_SIZE))]

\* A save that tries localStorage again after a failure and turns the flag
\* back on when the write succeeds.
saveToStorageRetrying(cs, store, throws) ==
    IF throws
    THEN [cs |-> [cs EXCEPT !.useLocalStorage = FALSE], store |-> store]
    ELSE [cs |-> [cs EXCEPT !.useLocalStorage = TRUE],
          store |-> JSONStringify(Slice(SortDescending(cs.cache),
                                        STORAGE_CACHE_SIZE))]

\* saveToStorage: the result is [cs, store], the cache object and the slot.
saveToStorage(cs, store, throws) ==
    IF ~cs.useLocalStorage THEN [cs |-> cs, store |-> store]
    ELSE IF throws
    THEN [cs |-> [cs EXCEPT !.useLocalStorage = FALSE], store |-> store]
    ELSE [cs |-> cs,
          store |-> JSONStringify(Slice(SortDescending(cs.cache),
                                        STORAGE_CACHE_SIZE))]

\* A get that finds nothing.
CacheGetMiss(cs, url, time, store, throws) ==
    [hit |-> FALSE, value |-> EmptyStr, cs |-> cs, store |-> store]

\* A get whose new timestamp is lost when the save throws.
CacheGetSaveFirst(cs, url, time, store, throws) ==
    IF MapHas(cs.cache, url)
    THEN LET i == MapIndex(cs.cache, url)
             touched == [cs EXCEPT !.cache[i].timestamp = time]
             saved == saveToStorage(touched, store, throws)
         IN  [hit |-> TRUE, value |-> cs.cache[i].signature,
              cs |-> IF cs.useLocalStorage /\ throws
                     THEN [cs EXCEPT !.useLocalStorage = FALSE]
                     ELSE saved.cs,
              store |-> saved.store]
    ELSE [hit |-> FALSE, value |-> EmptyStr, cs |-> cs, store |-> store]

\* get(url): the result is [hit, value, cs, store].
CacheGet(cs, url, time, store, throws) ==
    IF MapHas(cs.cache, url)
    THEN LET i == MapIndex(cs.cache, url)
             touched == [cs EXCEPT !.cache[i].timestamp = time]
             saved == saveToStorage(touched, store, throws)
         IN  [hit |-> TRUE, value |-> cs.cache[i].signature,
              cs |-> saved.cs, store |-> saved.store]
    ELSE [hit |-> FALSE, value |-> EmptyStr, cs |-> cs, store |-> store]

\* An eviction that deletes the entry of the latest timestamp.
EvictNewest(m, maxSize) ==
    IF Len(m) >= maxSize /\ Len(m) > 0
    THEN MapDelete(m, SortDescending(m)[1].url)
    ELSE m

\* An eviction step that deletes nothing.
EvictNone(m, maxSize) == m

\* The eviction step of set: at capacity, the first entry of the ascending
\* sort is deleted.
EvictOldest(m, maxSize) ==
    IF Len(m) >= maxSize /\ Len(m) > 0
    THEN MapDelete(m, SortAscending(m)[1].url)
    ELSE m

\* A set that writes no entry.
CacheSetWithoutEntry(cs, url, signature, time, store, throws) ==
    saveToStorage(cs, store, throws)

\* set(url, signature): the result is [cs, store].
CacheSet(cs, url, signature, time, store, throws) ==
    LET evicted == EvictOldest(cs.cache, cs.maxSize)
        stored == MapSet(evicted, [url |-> url, signature |-> signature,
                                   timestamp |-> time])
    IN  saveToStorage([cs EXCEPT !.cache = stored], store, throws)

\* getStats()
getStats(cs) ==
    [size |-> Len(cs.cache), maxSize |-> cs.maxSize,
     persistenceEnabled |-> cs.useLocalStorage,
     persistenceMaxSize |-> STORAGE_CACHE_SIZE]

\* ------------------------------------------------------------------------
\* Inputs the environment may supply
\* ------------------------------------------------------------------------

SampleImageUrl == <<"https", ":", "/", "/", "example.com", "/", "art.png">>

SampleHex == <<"#", "FF0000">>

\* A color element as in the repository's test: hex and imageUrl both set.
ColorElement == [type |-> "color", imageUrl |-> SampleImageUrl, hex |-> SampleHex]

ImageElement == [type |-> "image", imageUrl |-> SampleImageUrl, hex |-> EmptyStr]

ColorWithoutHex == [type |-> "color", imageUrl |-> SampleImageUrl, hex |-> EmptyStr]

ImageWithoutUrl == [type |-> "image", imageUrl |-> EmptyStr, hex |-> SampleHex]

ProductFull ==
    [present |-> TRUE, productId |-> <<"p1">>, mockupId |-> <<"m1">>,
     variantId |-> <<"v1">>, width |-> 0]

\* No variantId (the default applies) and a width.
ProductWide ==
    [present |-> TRUE, productId |-> <<"p", "&", "1">>, mockupId |-> <<"m1">>,
     variantId |-> EmptyStr, width |-> 1400]

NoProduct ==
    [present |-> FALSE, productId |-> EmptyStr, mockupId |-> EmptyStr,
     variantId |-> EmptyStr, width |-> 0]

ValidInputs ==
    {[design |-> <<ColorElement>>, product |-> ProductFull],
     [design |-> <<ImageElement, ColorElement>>, product |-> ProductWide]}

InvalidInputs ==
    {[design |-> << >>, product |-> ProductFull],
     [design |-> <<ColorWithoutHex>>, product |-> ProductFull],
     [design |-> <<ColorElement, ImageWithoutUrl>>, product |-> ProductFull],
     [design |-> <<ColorElement>>, product |-> [ProductFull EXCEPT !.productId = EmptyStr]],
     [design |-> <<ColorElement>>, product |-> [ProductFull EXCEPT !.mockupId = EmptyStr]],
     [design |-> <<ColorElement>>, product |-> NoProduct]}

Inputs == ValidInputs \cup InvalidInputs

\* The account of the client made in slot c: the slots hold different accounts.
AccountOf(c) == IF c = 1 THEN <<"acctA">> ELSE <<"acct", "&", ToString(c)>>

ClientIds == {<<"client", "+", "1">>}

\* The options createClient may be called with for slot c; EmptyStr is a
\* missing field.
ClientOptions(c) ==
    [mockupApiUrl : {EmptyStr}, urlSignerEndpoint : {EmptyStr},
     accountId : {AccountOf(c), EmptyStr}, clientId : ClientIds \cup {EmptyStr}]

\* Endpoints a caller supplies in the options.
CustomMockupApiUrl == <<"https", ":", "/", "/", "img.example.test">>

CustomSignerEndpoint == <<"https", ":", "/", "/", "sign.example.test", "/", "sign">>

\* Options with both required fields, with and without endpoints of the
\* caller's own.
EndpointOptions ==
    [mockupApiUrl : {EmptyStr, CustomMockupApiUrl},
     urlSignerEndpoint : {EmptyStr, CustomSignerEndpoint},
     accountId : {AccountOf(1)}, clientId : ClientIds]

\* ------------------------------------------------------------------------
\* The signer behind fetch
\* ------------------------------------------------------------------------

\* The signature the signer issues for its n-th request.
SignatureOf(n) == <<"S" \o ToString(n), "=">>

\* The relative signed path of a well-formed response (as the mock transport
\* of the repository's test returns it: the path with a sig parameter).
SignedPath(url, signature) ==
    url \o <<"&", "sig", "=">> \o encodeURIComponent(signature)

\* What fetch and the response body may be: fetch rejecting with an Error or
\* with a value that is no Error, a response with ok false, and ok bodies
\* that are well-formed, lack a field, or carry an absolute urlWithSignature.
ResponseKinds ==
    {"reject", "rejectNonError", "notOk", "ok", "okAbsolute",
     "noSignature", "noUrlWithSignature"}

ResponseBody(kind, url, n) ==
    [signature |->
        IF kind \in {"ok", "okAbsolute", "noUrlWithSignature"}
        THEN SignatureOf(n) ELSE EmptyStr,
     urlWithSignature |->
        IF kind \in {"ok", "noSignature"} THEN SignedPath(url, SignatureOf(n))
        ELSE IF kind = "okAbsolute"
        THEN <<"https", ":", "/", "/", "cdn.example.com">>
                 \o SignedPath(url, SignatureOf(n))
        ELSE EmptyStr]

\* ------------------------------------------------------------------------
\* State
\* ------------------------------------------------------------------------

VARIABLES
    now,        \* Date.now()
    lsThrows,   \* whether a localStorage call throws at this moment
    storage,    \* the localStorage slot SIGNATURE_CACHE_KEY
    nodeEnv,    \* process.env.NODE_ENV
    client,     \* per slot: the MockupServiceImpl's accountId, clientId, urls
    cache,      \* per slot: the SignatureCache object
    rate,       \* per slot: queueLength, rateInfo.perMinute, rateInfo.perSecond
    timers,     \* the pending setTimeout callbacks, in scheduling order
    snapshot,   \* the value a caller holds from getRateLimitInfo()
    pending,    \* getMockupUrl calls suspended at `await fetch`
    calls,      \* number of calls trackRateLimit has counted
    transport,  \* the fetch calls made so far, in order (the mock transport's log)
    probeThrew, \* per slot: whether the constructor's storage probe threw
    touched,    \* per slot: the keys this cache object set or hit, least recent first
    last        \* what the latest call did and returned

vars == <<now, lsThrows, storage, nodeEnv, client, cache, rate, timers,
          snapshot, pending, calls, transport, probeThrew, touched, last>>

NoInput == [design |-> << >>, product |-> NoProduct]

NoOptions ==
    [mockupApiUrl |-> EmptyStr, urlSignerEndpoint |-> EmptyStr,
     accountId |-> EmptyStr, clientId |-> EmptyStr]

\* The record of a call: its operation ("create", "sign" for getMockupUrl up
\* to its return or suspension, "settle" for its continuation after fetch,
\* "new", "get", "set" for direct calls on a SignatureCache), what it was
\* given, how it ended, and what it did while it ran.
NoLast ==
    [op |-> "none", client |-> 0, options |-> NoOptions, input |-> NoInput,
     outcome |-> "none", via |-> "none", error |-> "", response |-> "none",
     key |-> EmptyStr, url |-> EmptyStr, signature |-> EmptyStr,
     follows |-> EmptyStr, request |-> 0,
     transportCalls |-> 0, storageCalls |-> 0, cacheCalls |-> 0,
     dq |-> 0, dpm |-> 0, dps |-> 0, queueBefore |-> 0, alone |-> FALSE,
     wasFull |-> FALSE, fresh |-> FALSE, evicted |-> {}, lru |-> EmptyStr,
     oldest |-> FALSE, strictlyOldest |-> FALSE]

NoCache ==
    [built |-> FALSE, cache |-> << >>, maxSize |-> 0, useLocalStorage |-> FALSE]

\* config is the options object that getConfig() copies.
NoClient ==
    [live |-> FALSE, accountId |-> EmptyStr, clientId |-> EmptyStr,
     isDevelopment |-> FALSE, config |-> NoOptions]

\* No value of getRateLimitInfo() is held. rateInfo is the slot of the
\* service whose rateInfo object the held value refers to; copy is what the
\* fields of the held value would read if all of them were the caller's own.
NoSnapshot ==
    [held |-> FALSE, queueLength |-> 0, rateInfo |-> 0,
     copy |-> [queueLength |-> 0, perMinute |-> 0, perSecond |-> 0]]

Init ==
    /\ now = 0
    /\ lsThrows \in BOOLEAN
    /\ storage = NoItem
    /\ nodeEnv = "production"
    /\ client = [c \in Clients |-> NoClient]
    /\ cache = [c \in Clients |-> NoCache]
    /\ rate = [c \in Clients |-> [queueLength |-> 0, perMinute |-> 0, perSecond |-> 0]]
    /\ timers = << >>
    /\ snapshot = NoSnapshot
    /\ pending = {}
    /\ calls = 0
    /\ transport = << >>
    /\ probeThrew = [c \in Clients |-> FALSE]
    /\ touched = [c \in Clients |-> << >>]
    /\ last = NoLast

\* ------------------------------------------------------------------------
\* The record of touches
\* ------------------------------------------------------------------------

Without(t, keys) == SelectSeq(t, LAMBDA k : k \notin keys)

\* The keys in t after one more touch of key.
Touch(t, key) == Append(Without(t, {key}), key)

\* The record of touches after set(url, ...) took the Map from `before` to
\* `after`: the keys that left are forgotten, url is the latest.
TouchAfterSet(t, before, after, url) ==
    Touch(Without(t, MapKeys(before) \ MapKeys(after)), url)

\* Whether key a was touched before key b (both touched).
TouchedBefore(t, a, b) ==
    \E i, j \in 1..Len(t) : i < j /\ t[i] = a /\ t[j] = b

\* The timestamp of a key's entry.
TimestampOf(m, url) == m[MapIndex(m, url)].timestamp

\* ------------------------------------------------------------------------
\* createClient
\* ------------------------------------------------------------------------

\* The checks without the one on clientId.
createClientErrorAccountOnly(options) ==
    IF ~Truthy(options.accountId) THEN "accountId is required" ELSE ""

\* The required-field checks: the message thrown, "" when none is.
createClientError(options) ==
    IF ~Truthy(options.accountId) THEN "accountId is required"
    ELSE IF ~Truthy(options.clientId) THEN "clientId is required"
    ELSE ""

\* new MockupServiceImpl(accountId, clientId): isDevelopment defaults to
\* process.env.NODE_ENV === "development".
NewMockupService(options, env) ==
    [live |-> TRUE, accountId |-> options.accountId,
     clientId |-> options.clientId, isDevelopment |-> (env = "development")]

\* localStorage calls of the SignatureCache constructor: the probe's setItem
\* (and removeItem when it did not throw), then loadFromStorage's getItem.
ConstructorStorageCalls(throws) == IF throws THEN 1 ELSE 3

CreateClient(c, options) ==
    /\ ~client[c].live
    /\ ~cache[c].built
    /\ IF createClientError(options) # ""
       THEN /\ last' =
                   [NoLast EXCEPT !.op = "create", !.client = c, !.options = options,
                                  !.outcome = "error",
                                  !.error = createClientError(options)]
            /\ UNCHANGED <<client, cache, probeThrew>>
       ELSE /\ client' = [client EXCEPT ![c] =
                   LET mockups == NewMockupService(options, nodeEnv)
                   IN  [live |-> mockups.live,
                        accountId |-> mockups.accountId,
                        clientId |-> mockups.clientId,
                        isDevelopment |-> mockups.isDevelopment,
                        config |-> options]]
            /\ cache' = [cache EXCEPT ![c] =
                   NewSignatureCache(MEMORY_CACHE_SIZE, storage, lsThrows)]
            /\ probeThrew' = [probeThrew EXCEPT ![c] =
                   ~checkLocalStorageAvailability(lsThrows)]
            /\ last' =
                   [NoLast EXCEPT !.op = "create", !.client = c, !.options = options,
                                  !.outcome = "ok",
                                  !.storageCalls = ConstructorStorageCalls(lsThrows)]
    /\ UNCHANGED <<snapshot, now, lsThrows, storage, nodeEnv, rate, timers, pending,
                   calls, transport, touched>>

\* ------------------------------------------------------------------------
\* The rate counters
\* ------------------------------------------------------------------------

Max(a, b) == IF a >= b THEN a ELSE b

\* trackRateLimit: the three increments.
trackRateLimit(r) ==
    [queueLength |-> r.queueLength + 1, perMinute |-> r.perMinute + 1,
     perSecond |-> r.perSecond + 1]

\* A trackRateLimit that sets the 1-second timer only.
scheduleDecrementsSecondOnly(queue, c, time) ==
    queue \o <<[client |-> c, kind |-> "second", due |-> time + SECOND_MS]>>

\* trackRateLimit: the two setTimeout calls.
scheduleDecrements(queue, c, time) ==
    queue \o <<[client |-> c, kind |-> "second", due |-> time + SECOND_MS],
               [client |-> c, kind |-> "minute", due |-> time + MINUTE_MS]>>

\* A decrement without the floor at 0.
decreaseQueueLengthUnfloored(r) == [r EXCEPT !.queueLength = r.queueLength - 1]

decreaseQueueLength(r) == [r EXCEPT !.queueLength = Max(0, r.queueLength - 1)]

\* Callbacks that both decrement perMinute.
timerCallbackMinuteOnly(r, kind) ==
    [r EXCEPT !.perMinute = Max(0, r.perMinute - 1)]

\* The callbacks of the two timers.
timerCallback(r, kind) ==
    IF kind = "second"
    THEN [r EXCEPT !.perSecond = Max(0, r.perSecond - 1)]
    ELSE [r EXCEPT !.perMinute = Max(0, r.perMinute - 1)]

\* localStorage calls of one saveToStorage.
SaveStorageCalls(cs) == IF cs.useLocalStorage THEN 1 ELSE 0

\* ------------------------------------------------------------------------
\* getMockupUrl, up to its return or its suspension at `await fetch`
\* ------------------------------------------------------------------------

\* The signature in the URL the previous call returned, when that call was the
\* same request on the same client served by the signer; EmptyStr otherwise.
FollowsSignerCall(prev, c, input) ==
    IF prev.op = "settle" /\ prev.outcome = "ok" /\ prev.via = "signer"
           /\ prev.client = c /\ prev.input = input
    THEN QueryParam(prev.url, "sig")
    ELSE EmptyStr

GetMockupUrl(c, input) ==
    /\ client[c].live
    /\ LET error == validateMockupInput(input)
           mockupUrl == buildMockupUrl(input)
           relativeUrl == normalizeRelativeUrl(mockupUrl)
           urlWithAccountId == addAccountIdToUrl(client[c].accountId, relativeUrl.value)
           got == CacheGet(cache[c], urlWithAccountId, now, storage, lsThrows)
           urls == UrlsFor(client[c].isDevelopment)
           started == [NoLast EXCEPT !.op = "sign", !.client = c, !.input = input,
                                     !.follows = FollowsSignerCall(last, c, input)]
       IN  IF error # ""
           THEN \* validateMockupInput throws inside the try: the catch runs
                /\ rate' = [rate EXCEPT ![c] = decreaseQueueLength(@)]
                /\ last' =
                       [started EXCEPT !.outcome = "error", !.error = error,
                                       !.dq = rate'[c].queueLength - rate[c].queueLength]
                /\ UNCHANGED <<cache, storage, timers, pending, calls, transport,
                               touched>>
           ELSE /\ calls' = calls + 1
                /\ timers' = scheduleDecrements(timers, c, now)
                /\ IF ~relativeUrl.ok
                   THEN \* normalizeRelativeUrl throws
                        /\ rate' = [rate EXCEPT ![c] =
                               decreaseQueueLength(trackRateLimit(@))]
                        /\ last' =
                               [started EXCEPT !.outcome = "error",
                                               !.error = "URL must be relative",
                                               !.dq = rate'[c].queueLength - rate[c].queueLength,
                                               !.dpm = 1, !.dps = 1]
                        /\ UNCHANGED <<cache, storage, pending, transport, touched>>
                   ELSE /\ rate' = [rate EXCEPT ![c] = trackRateLimit(@)]
                        /\ cache' = [cache EXCEPT ![c] = got.cs]
                        /\ storage' = got.store
                        /\ touched' = IF got.hit
                                      THEN [touched EXCEPT ![c] = Touch(@, urlWithAccountId)]
                                      ELSE touched
                        /\ IF Truthy(got.value)
                           THEN \* cache hit: the URL is built locally
                                /\ UNCHANGED <<pending, transport>>
                                /\ last' =
                                       [started EXCEPT
                                           !.outcome = "ok", !.via = "cache",
                                           !.key = urlWithAccountId,
                                           !.signature = got.value,
                                           !.url = toAbsoluteUrl(urls,
                                               addSignatureToUrl(urlWithAccountId, got.value)),
                                           !.cacheCalls = 1,
                                           !.storageCalls = SaveStorageCalls(cache[c]),
                                           !.transportCalls = Len(transport') - Len(transport),
                                           !.dq = 1, !.dpm = 1, !.dps = 1]
                           ELSE \* miss: one fetch, the call is suspended
                                /\ transport' = Append(transport,
                                       [client |-> c, key |-> urlWithAccountId,
                                        url |-> signerEndpoint(urls, urlWithAccountId,
                                                               client[c].clientId),
                                        clientIdHeader |-> client[c].clientId])
                                /\ pending' = pending \cup
                                       {[request |-> Len(transport) + 1, client |-> c,
                                         input |-> input, key |-> urlWithAccountId,
                                         url |-> signerEndpoint(urls, urlWithAccountId,
                                                                client[c].clientId),
                                         clientIdHeader |-> client[c].clientId,
                                         queueBefore |-> rate[c].queueLength,
                                         callsThen |-> calls + 1,
                                         pendingThen |-> Cardinality(pending) + 1]}
                                /\ last' =
                                       [started EXCEPT
                                           !.outcome = "pending",
                                           !.key = urlWithAccountId,
                                           !.request = Len(transport'),
                                           !.cacheCalls = 1,
                                           !.storageCalls =
                                               IF got.hit THEN SaveStorageCalls(cache[c]) ELSE 0,
                                           !.transportCalls = Len(transport') - Len(transport),
                                           !.dq = 1, !.dpm = 1, !.dps = 1]
    /\ UNCHANGED <<snapshot, now, lsThrows, nodeEnv, client, probeThrew>>

\* ------------------------------------------------------------------------
\* getSignedUrl after `await fetch`, and the catch of getMockupUrl
\* ------------------------------------------------------------------------

\* A check of the response that accepts a body without signature.
signingErrorLenient(kind, body) ==
    IF kind = "reject" THEN "fetch failed"
    ELSE IF kind = "rejectNonError" THEN "Unknown error while getting signed URL"
    ELSE IF kind = "notOk" THEN "URL signing failed"
    ELSE IF ~Truthy(body.urlWithSignature)
    THEN "Invalid response from signer service - missing signature or urlWithSignature"
    ELSE ""

\* The message of the error getSignedUrl throws for a response, "" when the
\* response is accepted.
signingError(kind, body) ==
    IF kind = "reject" THEN "fetch failed"
    ELSE IF kind = "rejectNonError" THEN "Unknown error while getting signed URL"
    ELSE IF kind = "notOk" THEN "URL signing failed"
    ELSE IF ~Truthy(body.signature) \/ ~Truthy(body.urlWithSignature)
    THEN "Invalid response from signer service - missing signature or urlWithSignature"
    ELSE ""

Settle(call, kind) ==
    /\ call \in pending
    /\ LET c == call.client
           body == ResponseBody(kind, call.key, call.request)
           error == signingError(kind, body)
           stored == CacheSet(cache[c], call.key, body.signature, now,
                              storage, lsThrows)
           settled == [NoLast EXCEPT !.op = "settle", !.client = c,
                                     !.input = call.input, !.key = call.key,
                                     !.response = kind,
                                     !.request = call.request,
                                     !.queueBefore = call.queueBefore,
                                     !.alone = (calls = call.callsThen
                                         /\ Cardinality(pending) = call.pendingThen)]
       IN  IF error # ""
           THEN /\ rate' = [rate EXCEPT ![c] = decreaseQueueLength(@)]
                /\ last' =
                       [settled EXCEPT !.outcome = "error", !.error = error,
                                       !.dq = rate'[c].queueLength - rate[c].queueLength]
                /\ UNCHANGED <<cache, storage, touched>>
           ELSE /\ cache' = [cache EXCEPT ![c] = stored.cs]
                /\ storage' = stored.store
                /\ touched' = [touched EXCEPT ![c] =
                       TouchAfterSet(@, cache[c].cache, stored.cs.cache, call.key)]
                /\ last' =
                       [settled EXCEPT
                           !.outcome = "ok", !.via = "signer",
                           !.signature = body.signature,
                           !.url = toAbsoluteUrl(UrlsFor(client[c].isDevelopment),
                                                 body.urlWithSignature),
                           !.cacheCalls = 1,
                           !.storageCalls = SaveStorageCalls(cache[c])]
                /\ UNCHANGED rate
    /\ pending' = pending \ {call}
    /\ UNCHANGED <<snapshot, now, lsThrows, nodeEnv, client, timers, calls, transport,
                   probeThrew>>

\* ------------------------------------------------------------------------
\* Direct use of a SignatureCache
\* ------------------------------------------------------------------------

NewCache(c, maxSize) ==
    /\ ~cache[c].built
    /\ ~client[c].live
    /\ cache' = [cache EXCEPT ![c] = NewSignatureCache(maxSize, storage, lsThrows)]
    /\ probeThrew' = [probeThrew EXCEPT ![c] =
           ~checkLocalStorageAvailability(lsThrows)]
    /\ last' = [NoLast EXCEPT !.op = "new", !.client = c, !.outcome = "ok",
                              !.storageCalls = ConstructorStorageCalls(lsThrows)]
    /\ UNCHANGED <<snapshot, now, lsThrows, storage, nodeEnv, client, rate, timers,
                   pending, calls, transport, touched>>

Get(c, url) ==
    /\ cache[c].built
    /\ LET got == CacheGet(cache[c], url, now, storage, lsThrows)
       IN  /\ cache' = [cache EXCEPT ![c] = got.cs]
           /\ storage' = got.store
           /\ touched' = IF got.hit
                         THEN [touched EXCEPT ![c] = Touch(@, url)]
                         ELSE touched
           /\ last' = [NoLast EXCEPT !.op = "get", !.client = c, !.key = url,
                                     !.outcome = IF got.hit THEN "hit" ELSE "miss",
                                     !.signature = got.value,
                                     !.storageCalls =
                                         IF got.hit THEN SaveStorageCalls(cache[c]) ELSE 0]
    /\ UNCHANGED <<snapshot, now, lsThrows, nodeEnv, client, rate, timers, pending,
                   calls, transport, probeThrew>>

Set(c, url, signature) ==
    /\ cache[c].built
    /\ LET before == cache[c].cache
           stored == CacheSet(cache[c], url, signature, now, storage, lsThrows)
           gone == MapKeys(before) \ MapKeys(stored.cs.cache)
       IN  /\ cache' = [cache EXCEPT ![c] = stored.cs]
           /\ storage' = stored.store
           /\ touched' = [touched EXCEPT ![c] =
                  TouchAfterSet(@, before, stored.cs.cache, url)]
           /\ last' =
                  [NoLast EXCEPT
                      !.op = "set", !.client = c, !.key = url, !.outcome = "ok",
                      !.signature = signature,
                      !.storageCalls = SaveStorageCalls(cache[c]),
                      !.wasFull = (Len(before) = cache[c].maxSize),
                      !.fresh = ~MapHas(before, url),
                      !.evicted = gone,
                      !.lru = IF touched[c] = << >> THEN EmptyStr ELSE Head(touched[c]),
                      !.oldest =
                          \A k \in gone : \A i \in 1..Len(before) :
                              TimestampOf(before, k) <= before[i].timestamp,
                      !.strictlyOldest =
                          \A k \in gone : \A i \in 1..Len(before) :
                              before[i].url # k =>
                                  TimestampOf(before, k) < before[i].timestamp]
    /\ UNCHANGED <<snapshot, now, lsThrows, nodeEnv, client, rate, timers, pending,
                   calls, transport, probeThrew>>

\* The page is left: the cache object and what it held in memory are gone,
\* the localStorage slot stays.
Unload(c) ==
    /\ cache[c].built
    /\ ~client[c].live
    /\ cache' = [cache EXCEPT ![c] = NoCache]
    /\ touched' = [touched EXCEPT ![c] = << >>]
    /\ probeThrew' = [probeThrew EXCEPT ![c] = FALSE]
    /\ last' = [NoLast EXCEPT !.op = "unload", !.client = c]
    /\ UNCHANGED <<snapshot, now, lsThrows, storage, nodeEnv, client, rate, timers,
                   pending, calls, transport>>

\* ------------------------------------------------------------------------
\* Timers, the clock and the durable store's availability
\* ------------------------------------------------------------------------

\* The timer the event loop runs next: the earliest deadline, and among equal
\* deadlines the one scheduled first.
NextTimer ==
    CHOOSE i \in 1..Len(timers) :
        \A j \in 1..Len(timers) :
            \/ timers[i].due < timers[j].due
            \/ timers[i].due = timers[j].due /\ i <= j

TimerFire ==
    /\ timers # << >>
    /\ timers[NextTimer].due <= now
    /\ rate' = [rate EXCEPT ![timers[NextTimer].client] =
                   timerCallback(@, timers[NextTimer].kind)]
    /\ timers' = SubSeq(timers, 1, NextTimer - 1)
                     \o SubSeq(timers, NextTimer + 1, Len(timers))
    /\ UNCHANGED <<snapshot, now, lsThrows, storage, nodeEnv, client, cache, pending,
                   calls, transport, probeThrew, touched, last>>

\* getRateLimitInfo(): a new object whose queueLength is a copy of the
\* number and whose rateInfo is this.rateInfo itself.
GetRateLimitInfo(c) ==
    /\ client[c].live
    /\ snapshot' = [held |-> TRUE,
                    queueLength |-> rate[c].queueLength,
                    rateInfo |-> c,
                    copy |-> rate[c]]
    /\ last' = [NoLast EXCEPT !.op = "rateInfo", !.client = c]
    /\ UNCHANGED <<now, lsThrows, storage, nodeEnv, client, cache, rate, timers,
                   pending, calls, transport, probeThrew, touched>>

\* What the caller reads in the held value.
SnapshotRead ==
    [queueLength |-> snapshot.queueLength,
     perMinute |-> rate[snapshot.rateInfo].perMinute,
     perSecond |-> rate[snapshot.rateInfo].perSecond]

SnapshotFields == {"queueLength", "perMinute", "perSecond"}

\* The caller assigns to a field of the held value: queueLength is the held
\* object's own property, perMinute and perSecond are properties of the
\* rateInfo object it refers to.
SnapshotWrite(field, value) ==
    /\ snapshot.held
    /\ IF field = "queueLength"
         THEN /\ snapshot' = [snapshot EXCEPT !.queueLength = value,
                                              !.copy.queueLength = value]
              /\ rate' = rate
         ELSE /\ snapshot' = [snapshot EXCEPT !.copy[field] = value]
              /\ rate' = [rate EXCEPT ![snapshot.rateInfo][field] = value]
    /\ UNCHANGED <<now, lsThrows, storage, nodeEnv, client, cache, timers,
                   pending, calls, transport, probeThrew, touched, last>>

\* One millisecond passes.
Tick ==
    /\ now % SECOND_MS < MaxTicks
    /\ now' = now + 1
    /\ UNCHANGED <<snapshot, lsThrows, storage, nodeEnv, client, cache, rate, timers,
                   pending, calls, transport, probeThrew, touched, last>>

\* Time passes up to the next deadline of a pending timer.
AdvanceToTimer ==
    /\ \E i \in 1..Len(timers) : timers[i].due > now
    /\ now' = CHOOSE d \in {timers[i].due : i \in 1..Len(timers)} :
                  /\ d > now
                  /\ \A i \in 1..Len(timers) :
                         timers[i].due > now => d <= timers[i].due
    /\ UNCHANGED <<snapshot, lsThrows, storage, nodeEnv, client, cache, rate, timers,
                   pending, calls, transport, probeThrew, touched, last>>

\* localStorage starts or stops throwing (quota reached, storage disabled).
StorageFlips ==
    /\ lsThrows' = ~lsThrows
    /\ UNCHANGED <<snapshot, now, storage, nodeEnv, client, cache, rate, timers,
                   pending, calls, transport, probeThrew, touched, last>>

\* Another writer of the origin's localStorage leaves text in the slot that
\* JSON.parse rejects.
StorageCorrupted ==
    /\ storage # GarbageItem
    /\ storage' = GarbageItem
    /\ UNCHANGED <<snapshot, now, lsThrows, nodeEnv, client, cache, rate, timers,
                   pending, calls, transport, probeThrew, touched, last>>

\* ------------------------------------------------------------------------
\* Specifications
\* ------------------------------------------------------------------------

\* One client, every request and every response, at one instant of the
\* clock: no timer comes due.
Next ==
    \/ \E options \in ClientOptions(1) : CreateClient(1, options)
    \/ \E input \in Inputs :
           /\ input \in ValidInputs => calls < MaxCalls
           /\ GetMockupUrl(1, input)
    \/ \E call \in pending, kind \in ResponseKinds : Settle(call, kind)
    \/ StorageFlips

Spec == Init /\ [][Next]_vars

\* Two clients of different accounts that share the localStorage slot.
PairOptions(c) ==
    [mockupApiUrl |-> EmptyStr, urlSignerEndpoint |-> EmptyStr,
     accountId |-> AccountOf(c), clientId |-> <<"client", "+", "1">>]

PairResponseKinds == {"ok", "notOk"}

PairNext ==
    \/ \E c \in Clients : CreateClient(c, PairOptions(c))
    \/ \E c \in Clients, input \in ValidInputs :
           /\ calls < MaxPairCalls
           /\ GetMockupUrl(c, input)
    \/ \E call \in pending, kind \in PairResponseKinds : Settle(call, kind)
    \/ StorageFlips

PairSpec == Init /\ [][PairNext]_vars

\* One client over the timers' windows: the clock advances to the deadlines
\* and the timers fire.
RateInputs ==
    {[design |-> <<ColorElement>>, product |-> ProductFull],
     [design |-> << >>, product |-> ProductFull]}

RateResponseKinds == {"ok", "notOk", "reject", "noSignature"}

RateNext ==
    \/ CreateClient(1, PairOptions(1))
    \/ \E input \in RateInputs :
           /\ input \in ValidInputs => calls < MaxRateCalls
           /\ GetMockupUrl(1, input)
    \/ \E call \in pending, kind \in RateResponseKinds : Settle(call, kind)
    \/ TimerFire
    \/ AdvanceToTimer

RateSpec == Init /\ [][RateNext]_vars

\* One client whose caller reads the rate limit information, keeps the
\* returned value and assigns to its fields, while requests and timers go on.
SnapshotResponseKinds == {"ok", "notOk"}

SnapshotWrites == {0}

SnapshotNext ==
    \/ CreateClient(1, PairOptions(1))
    \/ \E input \in RateInputs :
           /\ input \in ValidInputs => calls < MaxSnapshotCalls
           /\ GetMockupUrl(1, input)
    \/ \E call \in pending, kind \in SnapshotResponseKinds : Settle(call, kind)
    \/ TimerFire
    \/ AdvanceToTimer
    \/ GetRateLimitInfo(1)
    \/ \E field \in SnapshotFields, value \in SnapshotWrites :
           SnapshotWrite(field, value)

SnapshotSpec == Init /\ [][SnapshotNext]_vars

\* One client made with or without endpoints of the caller's own.
EndpointResponseKinds == {"ok", "notOk"}

EndpointNext ==
    \/ \E options \in EndpointOptions : CreateClient(1, options)
    \/ \E input \in ValidInputs :
           /\ calls < MaxEndpointCalls
           /\ GetMockupUrl(1, input)
    \/ \E call \in pending, kind \in EndpointResponseKinds : Settle(call, kind)
    \/ StorageFlips

EndpointSpec == Init /\ [][EndpointNext]_vars

\* One client that repeats one request against a signer that answers well or
\* badly.
RetryInput == [design |-> <<ColorElement>>, product |-> ProductFull]

RetryResponseKinds == {"ok", "notOk", "noSignature", "noUrlWithSignature"}

RetryNext ==
    \/ CreateClient(1, PairOptions(1))
    \/ calls < MaxRetryCalls /\ GetMockupUrl(1, RetryInput)
    \/ \E call \in pending, kind \in RetryResponseKinds : Settle(call, kind)
    \/ StorageFlips

RetrySpec == Init /\ [][RetryNext]_vars

\* One SignatureCache used directly: get and set on CacheMaxSize + 1 keys,
\* with localStorage either usable throughout or throwing throughout.
CacheKeys == {<<"/", "k" \o ToString(i)>> : i \in 1..(CacheMaxSize + 1)}

CacheSignatures == {<<"s1">>, <<"s2">>}

CacheNext ==
    \/ NewCache(1, CacheMaxSize)
    \/ \E url \in CacheKeys : Get(1, url)
    \/ \E url \in CacheKeys, signature \in CacheSignatures : Set(1, url, signature)
    \/ Tick

CacheSpec == Init /\ [][CacheNext]_vars

\* One SignatureCache used directly on two keys while localStorage starts and
\* stops throwing at any moment.
DurableKeys == {<<"/", "k1">>, <<"/", "k2">>}

DurableSignature == <<"s1">>

DurableNext ==
    \/ NewCache(1, CacheMaxSize)
    \/ \E url \in DurableKeys : Get(1, url)
    \/ \E url \in DurableKeys : Set(1, url, DurableSignature)
    \/ Tick
    \/ StorageFlips

DurableSpec == Init /\ [][DurableNext]_vars

\* One client that repeats one request while the clock ticks and localStorage
\* starts and stops throwing at any moment.
WriteResponseKinds == {"ok", "notOk"}

WriteNext ==
    \/ CreateClient(1, PairOptions(1))
    \/ calls < MaxWriteCalls /\ GetMockupUrl(1, RetryInput)
    \/ \E call \in pending, kind \in WriteResponseKinds : Settle(call, kind)
    \/ Tick
    \/ StorageFlips

WriteSpec == Init /\ [][WriteNext]_vars

\* Two clients of one account, the second one possibly made after the first
\* has written the slot, while the clock ticks and the slot may be spoiled.
SeedResponseKinds == {"ok"}

SeedNext ==
    \/ \E c \in Clients : CreateClient(c, PairOptions(1))
    \/ \E c \in Clients, input \in ValidInputs :
           /\ calls < MaxSeedCalls
           /\ GetMockupUrl(c, input)
    \/ \E call \in pending, kind \in SeedResponseKinds : Settle(call, kind)
    \/ Tick
    \/ StorageCorrupted

SeedSpec == Init /\ [][SeedNext]_vars

\* One SignatureCache after another on the same slot: each is used directly
\* on CacheMaxSize + 1 keys, then the page is left and the next one is
\* constructed from what the slot holds.
ReloadSignature == <<"s1">>

ReloadNext ==
    \/ NewCache(1, CacheMaxSize)
    \/ \E url \in CacheKeys : Get(1, url)
    \/ \E url \in CacheKeys : Set(1, url, ReloadSignature)
    \/ Tick
    \/ Unload(1)

ReloadSpec == Init /\ [][ReloadNext]_vars

\* One client whose calls come to an end (the signer fails each request)
\* while the event loop goes on: time reaches every deadline and every timer
\* that is due runs.
DrainResponseKinds == {"notOk"}

DrainNext ==
    \/ CreateClient(1, PairOptions(1))
    \/ \E input \in RateInputs :
           /\ input \in ValidInputs => calls < MaxDrainCalls
           /\ GetMockupUrl(1, input)
    \/ \E call \in pending, kind \in DrainResponseKinds : Settle(call, kind)
    \/ TimerFire
    \/ AdvanceToTimer

DrainSpec ==
    /\ Init /\ [][DrainNext]_vars
    /\ WF_vars(TimerFire)
    /\ WF_vars(AdvanceToTimer)

\* ------------------------------------------------------------------------
\* Properties
\* ------------------------------------------------------------------------

\* C1: when getMockupUrl is called again on the same client with the same
\* request right after a call that the signer served successfully, the second
\* call makes no fetch call and suspends on none, it returns a URL, and the
\* signature that URL contains is the signature the first URL contains.
C1_Idempotent ==
    [][(last.op = "settle" /\ last'.op = "sign" /\ last'.follows # EmptyStr)
           => /\ transport' = transport
              /\ pending' = pending
              /\ last'.outcome = "ok"
              /\ QueryParam(last.url, "sig") # EmptyStr
              /\ QueryParam(last'.url, "sig") = QueryParam(last.url, "sig")]_vars

\* The second of two identical calls has returned from the cache.
C1_Witness ==
    /\ last.op = "sign"
    /\ last.follows # EmptyStr
    /\ last.via = "cache"
    /\ Len(transport) = 1

\* C2: clients of different accounts have different cache keys for the same
\* request, and a signature a client is served from its cache was issued by
\* the signer for a request of that client, under a key of its own account;
\* this over every interleaving of two clients whose caches load from and
\* save to the same localStorage slot.
C2_Isolation ==
    /\ \A input \in ValidInputs : \A a, b \in Clients :
           (a # b /\ client[a].live /\ client[b].live)
               => cacheKey(client[a].accountId, input)
                      # cacheKey(client[b].accountId, input)
    /\ (last.op = "sign" /\ last.via = "cache")
           => \E n \in 1..Len(transport) :
                  /\ SignatureOf(n) = last.signature
                  /\ transport[n].client = last.client
                  /\ QueryParam(transport[n].key, "accountId")
                         = client[last.client].accountId

\* A client whose cache holds, loaded from the shared slot, the other
\* account's signature for the very request it makes: the call goes to the
\* signer.
C2_Witness ==
    /\ last.op = "sign"
    /\ last.outcome = "pending"
    /\ \E other \in Clients \ {last.client} :
           /\ client[other].live
           /\ MapHas(cache[last.client].cache,
                     cacheKey(client[other].accountId, last.input))

\* The requests C3 is about: an empty design, a color element without hex, an
\* image element without imageUrl, a product without productId or mockupId.
C3_Rejected(input) ==
    \/ input.design = << >>
    \/ \E i \in 1..Len(input.design) :
           \/ input.design[i].type = "color" /\ input.design[i].hex = EmptyStr
           \/ input.design[i].type = "image" /\ input.design[i].imageUrl = EmptyStr
    \/ input.product.productId = EmptyStr
    \/ input.product.mockupId = EmptyStr

\* C3: a getMockupUrl call with such a request ends in an error, and the step
\* makes no fetch call, suspends on none, does not call the signature cache
\* and leaves the cache and the localStorage slot as they were.
C3_ValidationFirst ==
    [][(last'.op = "sign" /\ C3_Rejected(last'.input))
           => /\ last'.outcome = "error"
              /\ last'.error # ""
              /\ transport' = transport
              /\ pending' = pending
              /\ last'.cacheCalls = 0
              /\ cache' = cache
              /\ storage' = storage]_vars

\* A rejected request made while the cache holds an entry and another call
\* is suspended at the signer.
C3_Witness ==
    /\ last.op = "sign"
    /\ C3_Rejected(last.input)
    /\ last.outcome = "error"
    /\ pending # {}
    /\ cache[1].cache # << >>

\* C4 as stated: a set of a key the cache does not hold, on a cache that
\* holds maxSize keys, leaves maxSize entries, and the one key that left is
\* the least recently touched key, also when touches share a clock value.
C4_LeastRecentlyTouched ==
    (last.op = "set" /\ last.wasFull /\ last.fresh)
        => /\ Len(cache[last.client].cache) = cache[last.client].maxSize
           /\ last.evicted = {last.lru}

\* C4: a set of a key the cache does not hold, on a cache that holds maxSize
\* keys, leaves maxSize entries; exactly one key left, no entry had a smaller
\* timestamp than it, and it is the least recently touched key whenever its
\* timestamp was smaller than every other entry's.
C4_OldestTimestamp ==
    (last.op = "set" /\ last.wasFull /\ last.fresh)
        => /\ Len(cache[last.client].cache) = cache[last.client].maxSize
           /\ Cardinality(last.evicted) = 1
           /\ last.key \notin last.evicted
           /\ last.oldest
           /\ last.strictlyOldest => last.evicted = {last.lru}

\* A further key was set, after the clock had advanced, on a full cache whose
\* least recently touched entry had the smallest timestamp alone: that entry
\* left, and the entry now first in the Map was touched before the new key.
C4_Witness ==
    /\ last.op = "set" /\ last.wasFull /\ last.fresh
    /\ last.strictlyOldest
    /\ last.evicted = {last.lru}
    /\ \E k \in MapKeys(cache[last.client].cache) \ {last.key} :
           TouchedBefore(touched[last.client], k, last.key)
               /\ MapIndex(cache[last.client].cache, k) = 1
    /\ now > 0

\* The n most recently touched keys of the record t.
RecentKeys(t, n) == {t[i] : i \in (Len(t) - n + 1)..Len(t)}

Min(a, b) == IF a <= b THEN a ELSE b

\* The entries of a sequence, as a set.
Entries(m) == {m[i] : i \in 1..Len(m)}

\* The latest call was a set or a get hit that left localStorage enabled.
C5_Saved ==
    /\ last.op \in {"set", "get"}
    /\ last.outcome \in {"ok", "hit"}
    /\ cache[last.client].useLocalStorage

\* C5 as stated: after a set or a get hit with localStorage enabled the slot
\* holds at most STORAGE_CACHE_SIZE entries, and they are the entries of the
\* most recently touched keys of the cache (all entries when there are fewer).
C5_MostRecentlyTouched ==
    C5_Saved
        => /\ storage.kind = "json"
           /\ Len(storage.value) <= STORAGE_CACHE_SIZE
           /\ Entries(storage.value) \subseteq Entries(cache[last.client].cache)
           /\ MapKeys(storage.value) =
                  RecentKeys(touched[last.client],
                             Min(STORAGE_CACHE_SIZE, Len(cache[last.client].cache)))

\* C5: after a set or a get hit with localStorage enabled the slot holds
\* min(STORAGE_CACHE_SIZE, size) entries, each an entry of the cache, no
\* entry left out has a later timestamp than an entry in the slot, and when
\* the timestamps in the cache are pairwise different the slot holds the most
\* recently touched keys.
C5_LatestTimestamps ==
    C5_Saved
        => LET m == cache[last.client].cache
           IN  /\ storage.kind = "json"
               /\ Len(storage.value) = Min(STORAGE_CACHE_SIZE, Len(m))
               /\ Cardinality(MapKeys(storage.value)) = Len(storage.value)
               /\ Entries(storage.value) \subseteq Entries(m)
               /\ \A u \in Entries(m) \ Entries(storage.value) :
                      \A e \in Entries(storage.value) : u.timestamp <= e.timestamp
               /\ (\A i, j \in 1..Len(m) : i # j => m[i].timestamp # m[j].timestamp)
                      => MapKeys(storage.value) =
                             RecentKeys(touched[last.client],
                                        Min(STORAGE_CACHE_SIZE, Len(m)))

\* A get hit on the older entry of a cache that holds more entries than the
\* slot takes: the slot now holds the entry that was hit.
C5_Witness ==
    /\ C5_Saved
    /\ last.op = "get"
    /\ Len(cache[last.client].cache) > STORAGE_CACHE_SIZE
    /\ MapIndex(cache[last.client].cache, last.key) = 1
    /\ \A e \in Entries(cache[last.client].cache) :
           e.url # last.key => e.timestamp < now
    /\ last.key \in MapKeys(storage.value)

\* C6: a client whose constructor's storage probe threw reports
\* persistenceEnabled false from then on, its calls never change the
\* localStorage slot, a call of it that the signer answers well succeeds and
\* leaves the signature in the in-memory Map, and the same request repeated
\* right after is served from that Map.
C6_MemoryOnly ==
    [][\A c \in Clients :
           probeThrew'[c]
               => /\ getStats(cache'[c]).persistenceEnabled = FALSE
                  /\ last'.client = c => storage' = storage
                  /\ (last'.client = c /\ last'.op = "settle" /\ last'.response = "ok")
                         => /\ last'.outcome = "ok"
                            /\ MapHas(cache'[c].cache, last'.key)
                  /\ (last'.client = c /\ last'.op = "sign" /\ last'.follows # EmptyStr)
                         => /\ last'.outcome = "ok"
                            /\ last'.via = "cache"
                            /\ last'.storageCalls = 0]_vars

\* The repeated request of a client whose probe threw was served from the
\* Map, at a moment when localStorage has become usable and holds nothing.
C6_Witness ==
    /\ probeThrew[1]
    /\ last.op = "sign" /\ last.follows # EmptyStr /\ last.via = "cache"
    /\ ~lsThrows
    /\ storage = NoItem

\* The step in which a suspended call ends in an error.
C7_Fails ==
    /\ last'.op = "settle"
    /\ last'.outcome = "error"
    /\ pending' # pending

\* C7: a call that passed validation and then fails ends in an error and,
\* when no other call was tracked or settled between its start and its
\* failure, leaves queueLength at the value it had before the call; the
\* failure leaves perMinute and perSecond as they are, each one higher than
\* before the call's own increment.
C7_IncrementUndone ==
    [][/\ C7_Fails
           => /\ last'.error # ""
              /\ last'.alone =>
                     rate'[last'.client].queueLength = last'.queueBefore
              /\ rate'[last'.client].perMinute = rate[last'.client].perMinute
              /\ rate'[last'.client].perSecond = rate[last'.client].perSecond
       /\ (last'.op = "sign" /\ pending' # pending)
           => /\ rate'[last'.client].perMinute = rate[last'.client].perMinute + 1
              /\ rate'[last'.client].perSecond = rate[last'.client].perSecond + 1]_vars

\* The number of pending timers of a kind scheduled by a client's calls.
PendingTimers(c, kind) ==
    Cardinality({i \in 1..Len(timers) :
                     timers[i].client = c /\ timers[i].kind = kind})

\* C8: perSecond is the number of tracked calls whose 1-second timer has not
\* fired and perMinute the number whose 60-second timer has not fired.
C8_CountersMatchTimers ==
    \A c \in Clients :
        /\ rate[c].perSecond = PendingTimers(c, "second")
        /\ rate[c].perMinute = PendingTimers(c, "minute")

\* One call was tracked and the 1-second window has passed: perSecond is back
\* to 0 and perMinute is still 1.
C8_Witness ==
    /\ calls = 1
    /\ now >= SECOND_MS /\ now < MINUTE_MS
    /\ rate[1].perSecond = 0
    /\ rate[1].perMinute = 1

\* The answers C9 is about.
C9_BadAnswers == {"notOk", "noSignature", "noUrlWithSignature"}

\* The step in which a call is repeated right after it failed on such an answer.
C9_Repeats ==
    /\ last.op = "settle"
    /\ last.response \in C9_BadAnswers
    /\ last'.op = "sign"
    /\ last'.client = last.client
    /\ last'.input = last.input

\* A call that such an answer settles ends in an error and leaves the cache
\* and the localStorage slot as they were.
C9_Unchanged ==
    (last'.op = "settle" /\ last'.response \in C9_BadAnswers)
        => /\ last'.outcome = "error"
           /\ last'.error # ""
           /\ cache' = cache
           /\ storage' = storage

\* C9 as stated: such a call ends in an error with the cache unchanged, and
\* the same request made next issues a new signing request.
C9_NewRequestAlways ==
    [][/\ C9_Unchanged
       /\ C9_Repeats => Len(transport') = Len(transport) + 1]_vars

\* C9: such a call ends in an error with the cache unchanged, and the same
\* request made next issues a new signing request for the same key unless
\* the Map holds the key (stored by another call for the same key that the
\* signer answered well), in which case it is served from the Map.
C9_NewRequestUnlessStored ==
    [][/\ C9_Unchanged
       /\ (C9_Repeats /\ ~MapHas(cache[last.client].cache, last.key))
              => /\ Len(transport') = Len(transport) + 1
                 /\ transport'[Len(transport')].key = last.key
       /\ (C9_Repeats /\ MapHas(cache[last.client].cache, last.key))
              => /\ transport' = transport
                 /\ last'.via = "cache"]_vars

\* A request was repeated after two bad answers, the first one lacking only
\* the signature: the third signing request is in flight, the Map is empty.
C9_Witness ==
    /\ last.op = "sign"
    /\ last.outcome = "pending"
    /\ Len(transport) = 3
    /\ Cardinality(pending) = 1
    /\ cache[1].cache = << >>

C11_SignedKeyIsCacheKey ==
    [][/\ Len(transport') > Len(transport)
           => LET sent == transport'[Len(transport')]
                  c == sent.client
              IN  /\ SubSeq(transport', 1, Len(transport)) = transport
                  /\ last'.op = "sign" /\ last'.outcome = "pending"
                  /\ last'.request = Len(transport')
                  /\ last'.key = cacheKey(client[c].accountId, last'.input)
                  /\ sent.key = last'.key
                  /\ QueryParam(sent.url, "url") = sent.key
                  /\ QueryParam(sent.key, "accountId") = client[c].accountId
                  /\ QueryParam(sent.url, "accountId") = EmptyStr
                  /\ QueryParam(sent.url, "clientId") = client[c].clientId
       /\ Len(transport') <= Len(transport) => transport' = transport
       /\ (last'.op = "settle" /\ last'.outcome = "ok" /\ pending' # pending)
           => LET sent == QueryParam(transport[last'.request].url, "url")
                  m == cache'[last'.client].cache
              IN  /\ MapHas(m, sent)
                  /\ EntryOf(m, sent).signature = last'.signature]_vars

\* The signer answered a request whose key holds a percent-escape of its own
\* (the productId with "&"): the signature is stored under that key.
C11_Witness ==
    /\ last.op = "settle" /\ last.outcome = "ok"
    /\ last.input.product = ProductWide
    /\ MapHas(cache[last.client].cache,
              QueryParam(transport[last.request].url, "url"))

\* C12: the value getRateLimitInfo() returned is a copy. While a caller holds
\* it, its queueLength, perMinute and perSecond read what they read when it was
\* returned, changed only by the caller's own assignments, whatever sign()
\* calls and timer callbacks run meanwhile; and an assignment of the caller to
\* a field of the held value leaves the service's counters as they were.
C12_SnapshotCopy ==
    [][/\ snapshot'.held => SnapshotRead' = snapshot'.copy
       /\ (snapshot.held /\ snapshot'.held /\ snapshot'.copy # snapshot.copy)
              => rate' = rate]_vars

\* C13: a sign() call that passes validation and whose key has no signature in
\* the cache adds exactly one request to the transport, for that key, and is
\* suspended on it; one whose key has a signature in the cache adds none and
\* returns; and no other step (a response of any kind being processed, a call
\* that fails validation) adds a request, so a failed request is not retried.
C13_OneRequestPerMiss ==
    [][LET c == last'.client
           key == cacheKey(client[c].accountId, last'.input)
           hit == /\ MapHas(cache[c].cache, key)
                  /\ Truthy(EntryOf(cache[c].cache, key).signature)
       IN  /\ calls' = calls + 1 =>
                  IF hit
                  THEN /\ transport' = transport
                       /\ last'.outcome = "ok"
                  ELSE /\ Len(transport') = Len(transport) + 1
                       /\ SubSeq(transport', 1, Len(transport)) = transport
                       /\ transport'[Len(transport')].key = key
                       /\ last'.outcome = "pending"
           /\ calls' = calls => transport' = transport]_vars

\* A call missed the cache, its request failed, and the transport holds that
\* one request.
C13_Witness ==
    /\ last.op = "settle" /\ last.outcome = "error"
    /\ calls = 1 /\ Len(transport) = 1 /\ pending = {}

\* s begins with the atoms of prefix.
StartsWith(s, prefix) ==
    Len(s) >= Len(prefix) /\ SubSeq(s, 1, Len(prefix)) = prefix

\* The endpoint a client is to use: the supplied one, else the table's.
EndpointFor(c, name) ==
    IF Truthy(client[c].config[name])
    THEN client[c].config[name]
    ELSE UrlsFor(client[c].isDevelopment)[name]

\* C14: every signing request of a client goes to the urlSignerEndpoint its
\* options supplied, and every URL it returns is built on the mockupApiUrl
\* its options supplied; the table's endpoint is used where none was supplied.
C14_SuppliedEndpoints ==
    /\ \A n \in 1..Len(transport) :
           StartsWith(transport[n].url,
                      EndpointFor(transport[n].client, "urlSignerEndpoint")
                          \o <<"?">>)
    /\ (last.op \in {"sign", "settle"} /\ last.outcome = "ok")
           => StartsWith(last.url,
                         EndpointFor(last.client, "mockupApiUrl") \o <<"/">>)

\* The step of a sign() call that fails validation (no timer fires and the
\* clock stands still in it).
C15_FailsValidation ==
    /\ last'.op = "sign"
    /\ validateMockupInput(last'.input) # ""
    /\ timers' = timers /\ now' = now /\ pending' = pending

\* C15: a sign() call that fails validation ends in an error and leaves
\* queueLength, perMinute and perSecond of every client as they were, whatever
\* the number of calls in flight.
C15_ValidationLeavesCounters ==
    [][C15_FailsValidation
           => /\ last'.outcome = "error"
              /\ rate' = rate]_vars

\* The sign() calls of a client that are suspended at fetch.
InFlight(c) == Cardinality({call \in pending : call.client = c})

\* C16: queueLength of every client is the number of its sign() calls in
\* flight; it is 0 when none is pending.
C16_QueueLengthIsInFlight ==
    \A c \in Clients : rate[c].queueLength = InFlight(c)

\* C17: a set on a key that is already present in a cache holding maxSize
\* entries removes no entry: the cache holds the same keys after it as before
\* it, maxSize of them.
C17_OverwriteEvictsNothing ==
    [][LET c == last'.client
           before == cache[c].cache
           after == cache'[c].cache
       IN  (/\ last'.op = "set"
            /\ now' = now
            /\ Len(before) = cache[c].maxSize
            /\ MapHas(before, last'.key))
               => /\ MapKeys(after) = MapKeys(before)
                  /\ Len(after) = cache[c].maxSize]_vars

\* The entries a Map holds for a key.
EntriesFor(m, url) == Cardinality({i \in 1..Len(m) : m[i].url = url})

\* C18: a sign() call that misses while another call on the same key is in
\* flight issues a request of its own; every call the signer answers well
\* returns the URL that carries the signature of its own response; and when
\* such a response has been processed the cache holds one entry for the key,
\* with the signature of that response, whatever signature it held before.
C18_LastWriteWins ==
    [][/\ (last'.op = "sign" /\ last'.outcome = "pending" /\ pending' # pending)
           => /\ Len(transport') = Len(transport) + 1
              /\ \A call \in pending : call.request # last'.request
              /\ transport'[last'.request].key = last'.key
       /\ (last'.op = "settle" /\ last'.outcome = "ok" /\ pending' # pending)
           => LET m == cache'[last'.client].cache
              IN  /\ QueryParam(last'.url, "sig") = SignatureOf(last'.request)
                  /\ EntriesFor(m, last'.key) = 1
                  /\ EntryOf(m, last'.key).signature = SignatureOf(last'.request)]_vars

\* Two requests for one key were in flight together and both were answered
\* well (neither call ran the catch block: queueLength is still 2), the second
\* one first: the cache holds the signature of the first, processed last.
C18_Witness ==
    /\ last.op = "settle" /\ last.outcome = "ok"
    /\ last.request = 1
    /\ calls = 2 /\ Len(transport) = 2
    /\ transport[2].key = transport[1].key
    /\ rate[last.client].queueLength = 2
    /\ \A call \in pending : call.key # last.key
    /\ EntryOf(cache[last.client].cache, last.key).signature = SignatureOf(1)
    /\ QueryParam(last.url, "sig") = SignatureOf(1)

\* C19: once useLocalStorage of a built cache is false it stays false, and
\* every later operation of that cache makes no localStorage call and leaves
\* the slot as it is, also while localStorage works again.
C19_DurableFlagMonotone ==
    [][\A c \in Clients :
           (cache[c].built /\ ~cache[c].useLocalStorage)
               => /\ cache'[c].built
                  /\ ~cache'[c].useLocalStorage
                  /\ (last' # last /\ last'.client = c)
                         => /\ last'.storageCalls = 0
                            /\ storage' = storage]_vars

\* A write-through threw and turned the flag off, localStorage works again,
\* and a set has run since on a key the slot does not hold.
C19_Witness ==
    /\ cache[1].built /\ ~cache[1].useLocalStorage
    /\ ~probeThrew[1]
    /\ ~lsThrows
    /\ last.op = "set"
    /\ storage # NoItem
    /\ storage # JSONStringify(Slice(SortDescending(cache[1].cache),
                                     STORAGE_CACHE_SIZE))

\* The write-through of the step's cache operation throws: the cache of the
\* step's client has useLocalStorage on and localStorage throws.
C20_WriteThrows ==
    /\ cache[last'.client].useLocalStorage
    /\ lsThrows

\* C20: when the write-through throws in the get of a sign() call that hits,
\* the call returns the URL with the cached signature and the entry's
\* timestamp is the time of the call; when it throws in the set after a
\* well-formed response, the call returns its URL and the key is in the cache
\* with the response's signature; either way the other entries and the slot
\* are as they were and useLocalStorage is false afterwards.
C20_WriteFailureSwallowed ==
    [][LET c == last'.client
           key == cacheKey(client[c].accountId, last'.input)
           before == cache[c].cache
           after == cache'[c].cache
           rest(m) == SelectSeq(m, LAMBDA e : e.url # key)
       IN  /\ (/\ last'.op = "sign" /\ calls' = calls + 1
                /\ MapHas(before, key)
                /\ C20_WriteThrows)
               => /\ last'.outcome = "ok"
                  /\ last'.signature = EntryOf(before, key).signature
                  /\ QueryParam(last'.url, "sig") = EntryOf(before, key).signature
                  /\ MapHas(after, key)
                  /\ EntryOf(after, key) =
                         [EntryOf(before, key) EXCEPT !.timestamp = now]
                  /\ rest(after) = rest(before)
                  /\ ~cache'[c].useLocalStorage
                  /\ storage' = storage
           /\ (/\ last'.op = "settle" /\ pending' # pending
                /\ last'.response = "ok"
                /\ C20_WriteThrows)
               => /\ last'.outcome = "ok"
                  /\ QueryParam(last'.url, "sig") = SignatureOf(last'.request)
                  /\ MapHas(after, key)
                  /\ EntryOf(after, key) =
                         [url |-> key, signature |-> SignatureOf(last'.request),
                          timestamp |-> now]
                  /\ ~cache'[c].useLocalStorage
                  /\ storage' = storage]_vars

\* A sign() call hit the cache at a later instant than the entry was written,
\* its write-through threw, and it returned its URL: the flag is off, the
\* slot still holds the entry with its earlier timestamp.
C20_Witness ==
    /\ last.op = "sign" /\ last.via = "cache" /\ last.outcome = "ok"
    /\ lsThrows
    /\ ~probeThrew[1]
    /\ ~cache[1].useLocalStorage
    /\ TimestampOf(cache[1].cache, last.key) = now
    /\ now > 0
    /\ storage = JSONStringify(<<[EntryOf(cache[1].cache, last.key)
                                      EXCEPT !.timestamp = 0]>>)

\* The entries of a Map or an array, as a set.
EntrySet(m) == {m[i] : i \in 1..Len(m)}

\* C21: a cache constructed while localStorage works and the slot holds the
\* JSON of n entries starts with min(n, STORAGE_CACHE_SIZE) entries, each one
\* an entry of the slot and none older than a slot entry left out, with
\* useLocalStorage on; one constructed while the slot holds text that does
\* not parse starts empty with useLocalStorage off; and a sign() call of the
\* client for a key its cache holds adds no request and returns.
C21_SeededFromSlot ==
    [][\A c \in Clients :
           /\ (~cache[c].built /\ cache'[c].built /\ ~lsThrows)
                  => LET m == cache'[c].cache
                     IN  /\ storage.kind = "json"
                             => /\ Len(m) = Min(Len(storage.value),
                                                STORAGE_CACHE_SIZE)
                                /\ EntrySet(m) \subseteq EntrySet(storage.value)
                                /\ \A e \in EntrySet(storage.value) \ EntrySet(m) :
                                       \A k \in EntrySet(m) :
                                           k.timestamp >= e.timestamp
                                /\ cache'[c].useLocalStorage
                         /\ storage.kind = "garbage"
                             => /\ m = << >>
                                /\ ~cache'[c].useLocalStorage
           /\ (/\ last'.op = "sign" /\ last'.client = c
                /\ calls' = calls + 1
                /\ MapHas(cache[c].cache,
                          cacheKey(client[c].accountId, last'.input)))
                  => /\ transport' = transport
                     /\ last'.outcome = "ok"]_vars

\* The second client was made after the first one's request was signed and
\* stored, and its first call for that request returned from the cache: the
\* only request sent is the first client's.
C21_Witness ==
    /\ last.op = "sign" /\ last.client = 2 /\ last.via = "cache"
    /\ calls = 2
    /\ Len(transport) = 1
    /\ transport[1].client = 1
    /\ transport[1].key = last.key

\* C22: when the signer answers with a signature and a urlWithSignature that
\* begins with a scheme, the call ends in an error and returns no URL.
C22_AbsoluteSignedPathRejected ==
    [][LET body == ResponseBody(last'.response, last'.key, last'.request)
       IN  (/\ last'.op = "settle" /\ pending' # pending
            /\ last'.response \in {"ok", "okAbsolute"}
            /\ StartsWithHttp(body.urlWithSignature))
               => /\ last'.outcome = "error"
                  /\ last'.url = EmptyStr]_vars

\* C23: a built cache never holds more than maxSize entries: after its
\* construction from the slot and after every get and set.
C23_AtMostMaxSize ==
    \A c \in Clients :
        cache[c].built => Len(cache[c].cache) <= cache[c].maxSize

\* A cache that was seeded from the slot (it holds a key it never set or hit
\* itself) is full after a set.
C23_Witness ==
    /\ cache[1].built
    /\ last.op = "set"
    /\ Len(cache[1].cache) = cache[1].maxSize
    /\ \E url \in MapKeys(cache[1].cache) :
           \A i \in 1..Len(touched[1]) : touched[1][i] # url

\* C24: the counters of every client satisfy queueLength >= 0 and
\* 0 <= perSecond <= perMinute, whatever calls, failures and timer callbacks
\* have run (the callbacks in the order of their deadlines).
C24_CounterBounds ==
    \A c \in Clients :
        /\ rate[c].queueLength >= 0
        /\ 0 <= rate[c].perSecond
        /\ rate[c].perSecond <= rate[c].perMinute

\* A call failed validation while queueLength was 0, after the 1-second timer
\* of an earlier call had fired and before its 60-second timer has.
C24_Witness ==
    /\ last.op = "sign" /\ last.outcome = "error"
    /\ validateMockupInput(last.input) # ""
    /\ last.dq = 0
    /\ rate[1].queueLength = 0
    /\ rate[1].perSecond < rate[1].perMinute

\* C25: once no further call is tracked, perSecond and perMinute of every
\* client eventually are 0 and stay 0.
C25_CountersDrain ==
    <>[](\A c \in Clients : rate[c].perSecond = 0 /\ rate[c].perMinute = 0)

\* Calls were tracked at different instants, every timer has fired, and both
\* counters are 0.
C25_Witness ==
    /\ calls = 2
    /\ \E i, j \in 1..Len(transport) : i # j
    /\ timers = << >>
    /\ now > MINUTE_MS + SECOND_MS
    /\ rate[1].perSecond = 0 /\ rate[1].perMinute = 0

====
